---- MODULE Spec2Model ----
(***************************************************************************)
(* Verification model of the antigravity-agent frontend:                   *)
(*   - ConfigEncryptionProvider.encrypt / decrypt (XOR + UTF-8 + Base64)   *)
(*   - maskUsername / maskBackupFilename                                   *)
(*   - SystemTrayService and AntigravityService (wrappers over invoke)     *)
(*   - the useWindowClose hook (subscription lifetime, close handler)      *)
(* Strings of the cipher are sequences of UTF-16 code units (0..65535),    *)
(* byte strings are sequences of 0..255, Base64 text is a sequence of      *)
(* alphabet indices 0..63 with B64Pad standing for '='.                    *)
(***************************************************************************)
EXTENDS Integers, Sequences, FiniteSets, TLC

VARIABLES
    \* ---- encryption provider (one encrypt followed by one decrypt)
    cpc,          \* "input" | "encrypted" | "done"
    cdata,        \* the text handed to encrypt
    cpassword,    \* the password
    ccipher,      \* encrypt's return value
    cplain,       \* decrypt's outcome: [ok |-> BOOLEAN, val |-> text]
    \* ---- masking utility
    mpc,          \* "input" | "done"
    memail,       \* the argument
    mvia,         \* which export was called
    mresult,      \* the returned string
    \* ---- SystemTrayService / AntigravityService (one caller, one call at a time)
    spc,          \* "idle", or the backend call the running operation awaits
    sop,          \* the user-facing operation running (or the last one run)
    sarg,         \* the argument of the pending backend call
    slog,         \* the backend calls the operation made, with their responses
    sstatus,      \* the local `status` of the ...WithSave operations
    supdates,     \* the onStatusUpdate calls the operation made
    sout,         \* how the operation's promise settled
    isWindows,    \* navigator.userAgent.includes('Windows')
    trayEnabled,  \* backend: whether the tray is enabled
    persisted,    \* backend: the persisted tray flag
    \* ---- useWindowClose
    shouldPreventClose,  \* the module-level flag
    hook,         \* per component instance: the effect's state
    handler       \* per close-requested delivery: the listener callback's run

cryptVars == <<cpc, cdata, cpassword, ccipher, cplain>>
maskVars  == <<mpc, memail, mvia, mresult>>
svcVars   == <<spc, sop, sarg, slog, sstatus, supdates, sout, isWindows,
               trayEnabled, persisted>>
closeVars == <<shouldPreventClose, hook, handler>>
vars      == <<cryptVars, maskVars, svcVars, closeVars>>

----------------------------------------------------------------------------
\* Bounds of the model
MaxTextLen == 2
MaxPassLen == 2
MaxEmailLen == 5
MaxEvents == 2

\* Sequences over S of length lo..hi
SeqsOf(S, lo, hi) == UNION {[1..n -> S] : n \in lo..hi}

----------------------------------------------------------------------------
\* ======================= ConfigEncryptionProvider =======================

\* UTF-16 code units used as inputs: 'a', 'é', U+0800, U+4E2D, U+D000,
\* U+FE9E, and the surrogate pair D83D DE00.
CodeUnits == {97, 233, 2048, 20013, 53248, 65182, 55357, 56832}

\* code units passwords are drawn from: 'a', 'é', U+0800
PasswordUnits == {97, 233, 2048}

RECURSIVE BitXor(_, _, _)
\* a ^ b on w-bit operands (JavaScript's ^ restricted to code units)
BitXor(a, b, w) ==
    IF w = 0 THEN 0
    ELSE (((a % 2) + (b % 2)) % 2) + (2 * BitXor(a \div 2, b \div 2, w - 1))

\* the loop body of encrypt and of decrypt:
\* String.fromCharCode(data.charCodeAt(i) ^ password.charCodeAt(i % password.length))
XorWithPassword(data, password) ==
    [i \in 1..Len(data) |->
        BitXor(data[i], password[((i - 1) % Len(password)) + 1], 16)]

IsHighSurrogate(u) == u >= 55296 /\ u <= 56319
IsLowSurrogate(u)  == u >= 56320 /\ u <= 57343
IsSurrogate(u)     == u >= 55296 /\ u <= 57343
ReplacementChar    == 65533
ByteOrderMark      == 65279

RECURSIVE ToScalarValues(_)
\* TextEncoder.encode's input conversion (USVString): a surrogate pair is one
\* code point, a lone surrogate becomes U+FFFD
ToScalarValues(u) ==
    IF Len(u) = 0 THEN <<>>
    ELSE IF IsHighSurrogate(u[1]) /\ Len(u) >= 2 /\ IsLowSurrogate(u[2])
         THEN <<65536 + ((u[1] - 55296) * 1024) + (u[2] - 56320)>>
              \o ToScalarValues(SubSeq(u, 3, Len(u)))
    ELSE IF IsSurrogate(u[1])
         THEN <<ReplacementChar>> \o ToScalarValues(Tail(u))
    ELSE <<u[1]>> \o ToScalarValues(Tail(u))

\* UTF-8 bytes of one scalar value
Utf8Bytes(cp) ==
    IF cp < 128 THEN <<cp>>
    ELSE IF cp < 2048 THEN <<192 + (cp \div 64), 128 + (cp % 64)>>
    ELSE IF cp < 65536
         THEN <<224 + (cp \div 4096), 128 + ((cp \div 64) % 64), 128 + (cp % 64)>>
    ELSE <<240 + (cp \div 262144), 128 + ((cp \div 4096) % 64),
           128 + ((cp \div 64) % 64), 128 + (cp % 64)>>

RECURSIVE Utf8EncodeAll(_)
Utf8EncodeAll(cps) ==
    IF Len(cps) = 0 THEN <<>>
    ELSE Utf8Bytes(cps[1]) \o Utf8EncodeAll(Tail(cps))

\* new TextEncoder().encode(str)
TextEncode(str) == Utf8EncodeAll(ToScalarValues(str))

B64Pad == 64

RECURSIVE btoa(_)
\* btoa on a binary string (every char <= 255): 3 bytes -> 4 sextets, '=' padded
btoa(b) ==
    IF Len(b) = 0 THEN <<>>
    ELSE IF Len(b) = 1
         THEN <<b[1] \div 4, (b[1] % 4) * 16, B64Pad, B64Pad>>
    ELSE IF Len(b) = 2
         THEN <<b[1] \div 4, ((b[1] % 4) * 16) + (b[2] \div 16), (b[2] % 16) * 4, B64Pad>>
    ELSE <<b[1] \div 4, ((b[1] % 4) * 16) + (b[2] \div 16),
           ((b[2] % 16) * 4) + (b[3] \div 64), b[3] % 64>>
         \o btoa(SubSeq(b, 4, Len(b)))

\* unicodeBase64Encode: the TextEncoder path (the catch fallback is taken only
\* where TextEncoder is missing)
unicodeBase64Encode(str) == btoa(TextEncode(str))

\* encrypt(data, password)
encrypt(data, password) == unicodeBase64Encode(XorWithPassword(data, password))

\* atob, step 1 of forgiving-base64 decode: with a length divisible by 4, drop
\* one or two trailing '='
StripPadding(t) ==
    IF Len(t) > 0 /\ Len(t) % 4 = 0 /\ t[Len(t)] = B64Pad
    THEN IF Len(t) > 1 /\ t[Len(t) - 1] = B64Pad
         THEN SubSeq(t, 1, Len(t) - 2)
         ELSE SubSeq(t, 1, Len(t) - 1)
    ELSE t

RECURSIVE SextetsToBytes(_)
\* 4 sextets -> 3 bytes; a tail of 2 sextets -> 1 byte, of 3 sextets -> 2 bytes
SextetsToBytes(t) ==
    IF Len(t) < 2 THEN <<>>
    ELSE IF Len(t) = 2
         THEN <<(t[1] * 4) + (t[2] \div 16)>>
    ELSE IF Len(t) = 3
         THEN <<(t[1] * 4) + (t[2] \div 16), ((t[2] % 16) * 16) + (t[3] \div 4)>>
    ELSE <<(t[1] * 4) + (t[2] \div 16), ((t[2] % 16) * 16) + (t[3] \div 4),
           ((t[3] % 4) * 64) + t[4]>>
         \o SextetsToBytes(SubSeq(t, 5, Len(t)))

\* atob(str): [ok |-> FALSE] is the thrown InvalidCharacterError
atob(str) ==
    LET t == StripPadding(str) IN
    IF Len(t) % 4 = 1 \/ (\E i \in 1..Len(t) : t[i] = B64Pad)
    THEN [ok |-> FALSE, val |-> <<>>]
    ELSE [ok |-> TRUE, val |-> SextetsToBytes(t)]

RECURSIVE Utf8Decode(_, _, _, _, _, _)
\* the UTF-8 decoder of TextDecoder (not fatal): cp, needed, seen, lower and
\* upper are the decoder's state; a malformed sequence yields U+FFFD and the
\* offending byte is processed again
Utf8Decode(b, cp, needed, seen, lower, upper) ==
    IF Len(b) = 0
    THEN IF needed # 0 THEN <<ReplacementChar>> ELSE <<>>
    ELSE LET x == b[1]  rest == Tail(b) IN
      IF needed = 0
      THEN IF x <= 127 THEN <<x>> \o Utf8Decode(rest, 0, 0, 0, 128, 191)
           ELSE IF x >= 194 /\ x <= 223
                THEN Utf8Decode(rest, x % 32, 1, 0, 128, 191)
           ELSE IF x >= 224 /\ x <= 239
                THEN Utf8Decode(rest, x % 16, 2, 0,
                                IF x = 224 THEN 160 ELSE 128,
                                IF x = 237 THEN 159 ELSE 191)
           ELSE IF x >= 240 /\ x <= 244
                THEN Utf8Decode(rest, x % 8, 3, 0,
                                IF x = 240 THEN 144 ELSE 128,
                                IF x = 244 THEN 143 ELSE 191)
           ELSE <<ReplacementChar>> \o Utf8Decode(rest, 0, 0, 0, 128, 191)
      ELSE IF x < lower \/ x > upper
           THEN <<ReplacementChar>> \o Utf8Decode(b, 0, 0, 0, 128, 191)
           ELSE IF seen + 1 = needed
                THEN <<(cp * 64) + (x % 64)>> \o Utf8Decode(rest, 0, 0, 0, 128, 191)
                ELSE Utf8Decode(rest, (cp * 64) + (x % 64), needed, seen + 1, 128, 191)

\* TextDecoder's BOM handling with ignoreBOM = false (the default): a leading
\* U+FEFF is dropped from the output
StripBOM(cps) ==
    IF Len(cps) > 0 /\ cps[1] = ByteOrderMark THEN Tail(cps) ELSE cps

RECURSIVE ToCodeUnits(_)
\* code points to the UTF-16 code units of the resulting JavaScript string
ToCodeUnits(cps) ==
    IF Len(cps) = 0 THEN <<>>
    ELSE IF cps[1] >= 65536
         THEN <<55296 + ((cps[1] - 65536) \div 1024), 56320 + ((cps[1] - 65536) % 1024)>>
              \o ToCodeUnits(Tail(cps))
    ELSE <<cps[1]>> \o ToCodeUnits(Tail(cps))

\* new TextDecoder().decode(bytes)
TextDecode(bytes) == ToCodeUnits(StripBOM(Utf8Decode(bytes, 0, 0, 0, 128, 191)))

\* unicodeBase64Decode: atob then TextDecoder; atob's throw is not repaired by
\* the fallback (it calls atob again), so it ends in Error('Base64解码失败')
unicodeBase64Decode(str) ==
    LET binary == atob(str) IN
    IF binary.ok THEN [ok |-> TRUE, val |-> TextDecode(binary.val)]
    ELSE [ok |-> FALSE, val |-> <<>>]

\* decrypt(encryptedData, password): [ok |-> FALSE] is the thrown
\* Error('解密失败：数据格式错误或密码不正确')
decrypt(encryptedData, password) ==
    LET data == unicodeBase64Decode(encryptedData) IN
    IF data.ok THEN [ok |-> TRUE, val |-> XorWithPassword(data.val, password)]
    ELSE [ok |-> FALSE, val |-> <<>>]

NoPlain == [ok |-> FALSE, val |-> <<>>]

CryptIdle ==
    /\ cpc = "idle" /\ cdata = <<>> /\ cpassword = <<>>
    /\ ccipher = <<>> /\ cplain = NoPlain

\* the inputs: every text of at most MaxTextLen code units and every password
\* of 1..MaxPassLen code units
CryptInit ==
    /\ cpc = "input"
    /\ cdata \in SeqsOf(CodeUnits, 0, MaxTextLen)
    /\ cpassword \in SeqsOf(PasswordUnits, 1, MaxPassLen)
    /\ ccipher = <<>>
    /\ cplain = NoPlain

Encrypt ==
    /\ cpc = "input"
    /\ ccipher' = encrypt(cdata, cpassword)
    /\ cpc' = "encrypted"
    /\ UNCHANGED <<cdata, cpassword, cplain>>
    /\ UNCHANGED <<maskVars, svcVars, closeVars>>

Decrypt ==
    /\ cpc = "encrypted"
    /\ cplain' = decrypt(ccipher, cpassword)
    /\ cpc' = "done"
    /\ UNCHANGED <<cdata, cpassword, ccipher>>
    /\ UNCHANGED <<maskVars, svcVars, closeVars>>

CryptNext == Encrypt \/ Decrypt

----------------------------------------------------------------------------
\* ============================ Masking utility ===========================

EmailChars == {"a", "b", "@", "."}

\* email.lastIndexOf('@'), 0-based; -1 when absent
lastIndexOf(email, ch) ==
    LET hits == {i \in 1..Len(email) : email[i] = ch} IN
    IF hits = {} THEN -1
    ELSE (CHOOSE i \in hits : \A j \in hits : j <= i) - 1

\* stars: '*' repeated n times (the for loop)
Stars(n) == [i \in 1..n |-> "*"]

\* the branch on localPart.length that returns the input unchanged
LocalPartTooShort(localPart) == Len(localPart) <= 2

maskUsername(email) ==
    IF Len(email) = 0 THEN email
    ELSE LET atIndex == lastIndexOf(email, "@") IN
      IF atIndex <= 0 \/ atIndex >= Len(email) - 1 THEN email
      ELSE LET localPart  == SubSeq(email, 1, atIndex)
               domainPart == SubSeq(email, atIndex + 1, Len(email)) IN
        IF LocalPartTooShort(localPart) THEN email
        ELSE IF Len(localPart) = 2
             THEN <<localPart[1]>> \o <<"*">> \o domainPart
        ELSE <<localPart[1]>> \o Stars(Len(localPart) - 2)
             \o <<localPart[Len(localPart)]>> \o domainPart

maskBackupFilename(backupFile) ==
    IF Len(backupFile) = 0 THEN backupFile ELSE maskUsername(backupFile)

MaskIdle == mpc = "idle" /\ memail = <<>> /\ mvia = "none" /\ mresult = <<>>

MaskInit ==
    /\ mpc = "input"
    /\ memail \in SeqsOf(EmailChars, 0, MaxEmailLen)
    /\ mvia = "none"
    /\ mresult = <<>>

CallMaskUsername ==
    /\ mpc = "input"
    /\ mresult' = maskUsername(memail)
    /\ mvia' = "maskUsername"
    /\ mpc' = "done"
    /\ UNCHANGED memail
    /\ UNCHANGED <<cryptVars, svcVars, closeVars>>

CallMaskBackupFilename ==
    /\ mpc = "input"
    /\ mresult' = maskBackupFilename(memail)
    /\ mvia' = "maskBackupFilename"
    /\ mpc' = "done"
    /\ UNCHANGED memail
    /\ UNCHANGED <<cryptVars, svcVars, closeVars>>

MaskNext == CallMaskUsername \/ CallMaskBackupFilename


----------------------------------------------------------------------------
\* ================ SystemTrayService and AntigravityService ==============
\* invoke(cmd, args) and the dialog's open() are calls to the native side:
\* each either resolves with a value or rejects with an error.

Errors == {"E1", "E2"}
NullValue  == "<null>"
ArrayValue == "<array>"
SomePath   == "C:/Antigravity.exe"

Ok(v)   == [ok |-> TRUE,  val |-> v, err |-> ""]
Fail(v) == {[ok |-> FALSE, val |-> v, err |-> e] : e \in Errors}

\* what the native side may answer to each call
Responses(cmd) ==
    CASE cmd = "is_system_tray_enabled"  -> {Ok(trayEnabled)} \cup Fail(FALSE)
      [] cmd = "get_system_tray_state"   -> {Ok(persisted)} \cup Fail(FALSE)
      [] cmd = "is_antigravity_running"  -> {Ok(TRUE), Ok(FALSE)} \cup Fail(FALSE)
      [] cmd = "resolve_antigravity_path" ->
            {Ok(NullValue), Ok(""), Ok(SomePath)} \cup Fail("")
      [] cmd = "dialog_open" ->
            {Ok(NullValue), Ok(ArrayValue), Ok(SomePath)} \cup Fail("")
      [] cmd = "list_backups" ->
            {Ok(NullValue), Ok("[]"), Ok("[a@b.com]")} \cup Fail("")
      [] OTHER -> {Ok("done")} \cup Fail("")

\* the native side's state after answering r to cmd(arg)
BackendTray(cmd, r) ==
    IF r.ok /\ cmd = "enable_system_tray" THEN TRUE
    ELSE IF r.ok /\ cmd = "disable_system_tray" THEN FALSE
    ELSE trayEnabled

BackendPersisted(cmd, arg, r) ==
    IF r.ok /\ cmd = "save_system_tray_state" THEN arg ELSE persisted

\* JavaScript truthiness of a string-or-null value
Truthy(v) == v # NullValue /\ v # ""

Resolved(v) == [kind |-> "resolved", val |-> v]
Rejected(v) == [kind |-> "rejected", val |-> v]
Pending     == [kind |-> "pending", val |-> ""]

Message(prefix, text) == [prefix |-> prefix, text |-> text]
NoStatus == [enabled |-> FALSE, message |-> Message("", "")]

\* ---- what each function makes of the response r to its invoke
\* enableSystemTray: try { enabled: true, message: result } catch { enabled: false }
enableSystemTray(r) ==
    IF r.ok THEN Resolved([enabled |-> TRUE, message |-> Message("", r.val)])
    ELSE Resolved([enabled |-> FALSE, message |-> Message("enable failed: ", r.err)])

\* disableSystemTray: enabled is false in the try and in the catch
disableSystemTray(r) ==
    IF r.ok THEN Resolved([enabled |-> FALSE, message |-> Message("", r.val)])
    ELSE Resolved([enabled |-> FALSE, message |-> Message("disable failed: ", r.err)])

\* minimizeToTray, restoreFromTray, isSystemTrayEnabled: return await invoke(...)
minimizeToTray(r)      == IF r.ok THEN Resolved(r.val) ELSE Rejected(r.err)
restoreFromTray(r)     == IF r.ok THEN Resolved(r.val) ELSE Rejected(r.err)
isSystemTrayEnabled(r) == IF r.ok THEN Resolved(r.val) ELSE Rejected(r.err)

\* saveSystemTrayState: the catch throws a new Error
saveSystemTrayState(r) ==
    IF r.ok THEN Resolved(r.val)
    ELSE Rejected(Message("save failed: ", r.err))

getSystemTrayState_DefaultFalse(r) == IF r.ok THEN Resolved(r.val) ELSE Resolved(FALSE)
getSystemTrayState_Rethrow(r) == IF r.ok THEN Resolved(r.val) ELSE Rejected(r.err)

\* getSystemTrayState: the catch returns true
getSystemTrayState(r) == IF r.ok THEN Resolved(r.val) ELSE Resolved(TRUE)

\* enable/disableSystemTrayWithSave: the condition guarding the save
SaveAfterEnable(status)  == status.enabled
SaveAfterDisable(status) == ~status.enabled

\* enable/disableSystemTrayWithSave after saveSystemTrayState settled as `saved`
enableSystemTrayWithSave(status, saved) ==
    IF saved.kind = "resolved" THEN Resolved(status)
    ELSE Resolved([enabled |-> FALSE,
                   message |-> Message("enable failed: ", saved.val.text)])

disableSystemTrayWithSave(status, saved) ==
    IF saved.kind = "resolved" THEN Resolved(status)
    ELSE Resolved([enabled |-> FALSE,
                   message |-> Message("disable failed: ", saved.val.text)])

\* backupAndRestartAntigravity: the catch throws a new Error
backupAndRestartAntigravity(r) ==
    IF r.ok THEN Resolved("void")
    ELSE Rejected(Message("backup and restart failed: ", r.err))

\* getBackupList: a falsy list throws inside the try; the catch throws a new Error
getBackupList(r) ==
    IF r.ok /\ Truthy(r.val) THEN Resolved(r.val)
    ELSE IF r.ok THEN Rejected(Message("list failed: ", "no backup list"))
    ELSE Rejected(Message("list failed: ", r.err))

SelectionCancelled_NoArrayCheck(selected) == ~Truthy(selected)

\* ensureAntigravityPath: !selected || Array.isArray(selected)
SelectionCancelled(selected) == ~Truthy(selected) \/ selected = ArrayValue

Update(msg, isError) == [msg |-> msg, isError |-> isError]

LogEntry(cmd, arg, r) ==
    [cmd |-> cmd, arg |-> arg, ok |-> r.ok, val |-> r.val, err |-> r.err]

SvcOff ==
    /\ spc = "off" /\ sop = "none" /\ sarg = "" /\ slog = <<>>
    /\ sstatus = NoStatus /\ supdates = <<>> /\ sout = Pending
    /\ isWindows = FALSE /\ persisted = FALSE

SvcIdle == SvcOff /\ trayEnabled = FALSE

SvcInit ==
    /\ spc = "idle" /\ sop = "none" /\ sarg = "" /\ slog = <<>>
    /\ sstatus = NoStatus /\ supdates = <<>> /\ sout = Pending
    /\ isWindows \in BOOLEAN
    /\ trayEnabled \in BOOLEAN
    /\ persisted \in BOOLEAN

NotSvc == UNCHANGED <<cryptVars, maskVars, closeVars>>

\* an operation is called: it runs to its first await of `cmd`
Begin(op, cmd, arg, updates) ==
    /\ sop' = op /\ spc' = cmd /\ sarg' = arg
    /\ slog' = <<>> /\ sstatus' = NoStatus /\ supdates' = updates /\ sout' = Pending
    /\ UNCHANGED <<isWindows, trayEnabled, persisted>>
    /\ NotSvc

\* the awaited call `cmd` is answered with r
Answered(cmd, r) ==
    /\ spc = cmd
    /\ r \in Responses(cmd)
    /\ slog' = Append(slog, LogEntry(cmd, sarg, r))
    /\ trayEnabled' = BackendTray(cmd, r)
    /\ persisted' = BackendPersisted(cmd, sarg, r)
    /\ UNCHANGED <<sop, isWindows>>
    /\ NotSvc

\* the operation settles
Return(outcome) == spc' = "idle" /\ sout' = outcome /\ sarg' = ""

\* the operation goes on to await `cmd`
Await(cmd, arg) == spc' = cmd /\ sarg' = arg /\ UNCHANGED sout

Call_enableSystemTray ==
    /\ spc = "idle"
    /\ Begin("enableSystemTray", "enable_system_tray", "", <<>>)

Call_disableSystemTray ==
    /\ spc = "idle"
    /\ Begin("disableSystemTray", "disable_system_tray", "", <<>>)

\* toggleSystemTray(enabled) returns this.enableSystemTray() or this.disableSystemTray()
Call_toggleSystemTray ==
    /\ spc = "idle"
    /\ \E enabled \in BOOLEAN :
          Begin("toggleSystemTray",
                IF enabled THEN "enable_system_tray" ELSE "disable_system_tray", "", <<>>)

Call_minimizeToTray ==
    /\ spc = "idle"
    /\ Begin("minimizeToTray", "minimize_to_tray", "", <<>>)

Call_restoreFromTray ==
    /\ spc = "idle"
    /\ Begin("restoreFromTray", "restore_from_tray", "", <<>>)

Call_isSystemTrayEnabled ==
    /\ spc = "idle"
    /\ Begin("isSystemTrayEnabled", "is_system_tray_enabled", "", <<>>)

Call_saveSystemTrayState ==
    /\ spc = "idle"
    /\ \E enabled \in BOOLEAN :
          Begin("saveSystemTrayState", "save_system_tray_state", enabled, <<>>)

Call_getSystemTrayState ==
    /\ spc = "idle"
    /\ Begin("getSystemTrayState", "get_system_tray_state", "", <<>>)

Call_enableSystemTrayWithSave ==
    /\ spc = "idle"
    /\ Begin("enableSystemTrayWithSave", "enable_system_tray", "", <<>>)

Call_disableSystemTrayWithSave ==
    /\ spc = "idle"
    /\ Begin("disableSystemTrayWithSave", "disable_system_tray", "", <<>>)

\* backupAndRestartAntigravity reports 'closing' before it invokes the backend
Call_backupAndRestartAntigravity ==
    /\ spc = "idle"
    /\ Begin("backupAndRestartAntigravity", "backup_and_restart_antigravity", "",
             <<Update("closing", FALSE)>>)

Call_getBackupList ==
    /\ spc = "idle"
    /\ Begin("getBackupList", "list_backups", "", <<>>)

\* ensureAntigravityPath up to its first await; off Windows it returns true at once
Call_ensureAntigravityPath ==
    /\ spc = "idle"
    /\ IF isWindows
       THEN Begin("ensureAntigravityPath", "is_antigravity_running", "", <<>>)
       ELSE /\ sop' = "ensureAntigravityPath"
            /\ slog' = <<>> /\ sstatus' = NoStatus /\ supdates' = <<>>
            /\ Return(Resolved(TRUE))
            /\ UNCHANGED <<isWindows, trayEnabled, persisted>>
            /\ NotSvc

\* invoke('enable_system_tray') settles inside enableSystemTray, called by
\* enableSystemTray itself, toggleSystemTray or enableSystemTrayWithSave
On_enable_system_tray ==
    \E r \in Responses("enable_system_tray") :
        /\ Answered("enable_system_tray", r)
        /\ LET status == enableSystemTray(r).val IN
           IF sop = "enableSystemTrayWithSave" /\ SaveAfterEnable(status)
           THEN sstatus' = status /\ Await("save_system_tray_state", TRUE)
           ELSE sstatus' = status /\ Return(Resolved(status))
        /\ UNCHANGED supdates

On_disable_system_tray ==
    \E r \in Responses("disable_system_tray") :
        /\ Answered("disable_system_tray", r)
        /\ LET status == disableSystemTray(r).val IN
           IF sop = "disableSystemTrayWithSave" /\ SaveAfterDisable(status)
           THEN sstatus' = status /\ Await("save_system_tray_state", FALSE)
           ELSE sstatus' = status /\ Return(Resolved(status))
        /\ UNCHANGED supdates

\* invoke('save_system_tray_state') settles inside saveSystemTrayState
On_save_system_tray_state ==
    \E r \in Responses("save_system_tray_state") :
        /\ Answered("save_system_tray_state", r)
        /\ LET saved == saveSystemTrayState(r) IN
           CASE sop = "enableSystemTrayWithSave" ->
                    Return(enableSystemTrayWithSave(sstatus, saved))
             [] sop = "disableSystemTrayWithSave" ->
                    Return(disableSystemTrayWithSave(sstatus, saved))
             [] OTHER -> Return(saved)
        /\ UNCHANGED <<sstatus, supdates>>

On_get_system_tray_state ==
    \E r \in Responses("get_system_tray_state") :
        /\ Answered("get_system_tray_state", r)
        /\ Return(getSystemTrayState(r))
        /\ UNCHANGED <<sstatus, supdates>>

On_minimize_to_tray ==
    \E r \in Responses("minimize_to_tray") :
        /\ Answered("minimize_to_tray", r)
        /\ Return(minimizeToTray(r))
        /\ UNCHANGED <<sstatus, supdates>>

On_restore_from_tray ==
    \E r \in Responses("restore_from_tray") :
        /\ Answered("restore_from_tray", r)
        /\ Return(restoreFromTray(r))
        /\ UNCHANGED <<sstatus, supdates>>

On_is_system_tray_enabled ==
    \E r \in Responses("is_system_tray_enabled") :
        /\ Answered("is_system_tray_enabled", r)
        /\ Return(isSystemTrayEnabled(r))
        /\ UNCHANGED <<sstatus, supdates>>

On_backup_and_restart_antigravity ==
    \E r \in Responses("backup_and_restart_antigravity") :
        /\ Answered("backup_and_restart_antigravity", r)
        /\ Return(backupAndRestartAntigravity(r))
        /\ supdates' = IF r.ok THEN Append(supdates, Update(r.val, FALSE)) ELSE supdates
        /\ UNCHANGED sstatus

On_list_backups ==
    \E r \in Responses("list_backups") :
        /\ Answered("list_backups", r)
        /\ Return(getBackupList(r))
        /\ UNCHANGED <<sstatus, supdates>>

\* the catch of ensureAntigravityPath: one error update, return false
EnsureCatch(r) ==
    /\ supdates' = Append(supdates, Update(r.err, TRUE))
    /\ Return(Resolved(FALSE))

On_is_antigravity_running ==
    \E r \in Responses("is_antigravity_running") :
        /\ Answered("is_antigravity_running", r)
        /\ IF ~r.ok THEN EnsureCatch(r)
           ELSE IF ~r.val
                THEN /\ supdates' = Append(supdates, Update("not running", TRUE))
                     /\ Return(Resolved(FALSE))
           ELSE Await("resolve_antigravity_path", "") /\ UNCHANGED supdates
        /\ UNCHANGED sstatus

On_resolve_antigravity_path ==
    \E r \in Responses("resolve_antigravity_path") :
        /\ Answered("resolve_antigravity_path", r)
        /\ IF ~r.ok THEN EnsureCatch(r)
           ELSE IF Truthy(r.val)
                THEN Return(Resolved(TRUE)) /\ UNCHANGED supdates
           ELSE /\ supdates' = Append(supdates, Update("path not found", FALSE))
                /\ Await("dialog_open", "")
        /\ UNCHANGED sstatus

On_dialog_open ==
    \E r \in Responses("dialog_open") :
        /\ Answered("dialog_open", r)
        /\ IF ~r.ok THEN EnsureCatch(r)
           ELSE IF SelectionCancelled(r.val)
                THEN /\ supdates' = Append(supdates, Update("cancelled", TRUE))
                     /\ Return(Resolved(FALSE))
           ELSE Await("save_antigravity_path", r.val) /\ UNCHANGED supdates
        /\ UNCHANGED sstatus

On_save_antigravity_path ==
    \E r \in Responses("save_antigravity_path") :
        /\ Answered("save_antigravity_path", r)
        /\ IF ~r.ok THEN EnsureCatch(r)
           ELSE /\ supdates' = Append(supdates, Update("path updated", FALSE))
                /\ Return(Resolved(TRUE))
        /\ UNCHANGED sstatus

SvcNext ==
    \/ Call_enableSystemTray
    \/ Call_disableSystemTray
    \/ Call_toggleSystemTray
    \/ Call_minimizeToTray
    \/ Call_restoreFromTray
    \/ Call_isSystemTrayEnabled
    \/ Call_saveSystemTrayState
    \/ Call_getSystemTrayState
    \/ Call_enableSystemTrayWithSave
    \/ Call_disableSystemTrayWithSave
    \/ Call_backupAndRestartAntigravity
    \/ Call_getBackupList
    \/ Call_ensureAntigravityPath
    \/ On_enable_system_tray
    \/ On_disable_system_tray
    \/ On_save_system_tray_state
    \/ On_get_system_tray_state
    \/ On_minimize_to_tray
    \/ On_restore_from_tray
    \/ On_is_system_tray_enabled
    \/ On_backup_and_restart_antigravity
    \/ On_list_backups
    \/ On_is_antigravity_running
    \/ On_resolve_antigravity_path
    \/ On_dialog_open
    \/ On_save_antigravity_path


----------------------------------------------------------------------------
\* ============================ useWindowClose ============================
\* hook[g]: the effect of component instance g.
\*   phase      "init" (not mounted yet), "pending" (listen() in flight),
\*              "registered" (listen() resolved), "failed" (listen() rejected)
\*   unlistenFn whether the closure's unlistenFn is non-null
\*   cleaned    whether the effect's cleanup has run (the component unmounted)
\*   subscribed whether the close-requested subscription is active
\* handler[h]: one run of the listener callback.
\*   pc         "free", the call it awaits, or "done"
\*   orphan     whether the instance whose subscription delivered the event
\*              was already unmounted at delivery
\*   hasPD      whether the event object has a preventDefault method
\*   prevented  whether event.preventDefault() was called
\*   log        the steps taken, in order, with how each ended
\*   result     how the callback's promise settled

\* the component that uses the hook
Instances == {"App"}
Events    == 1..MaxEvents

NewHook == [phase |-> "init", unlistenFn |-> FALSE, cleaned |-> FALSE,
            subscribed |-> FALSE]
NewHandler == [pc |-> "free", orphan |-> FALSE, hasPD |-> FALSE,
               prevented |-> FALSE, log |-> <<>>, result |-> "pending"]

CloseIdle ==
    /\ shouldPreventClose = FALSE
    /\ hook = [g \in Instances |-> NewHook]
    /\ handler = <<>>

CloseInit ==
    /\ shouldPreventClose = FALSE
    /\ hook = [g \in Instances |-> NewHook]
    /\ handler = [h \in Events |-> NewHandler]
    /\ SvcOff /\ trayEnabled \in BOOLEAN

NotClose == UNCHANGED <<cryptVars, maskVars, svcVars>>

\* window.hide() and window.emit(): resolve or reject
WindowCall == {TRUE, FALSE}

Step(op, res) == [op |-> op, res |-> res]

\* the effect runs: setupWindowCloseHandler() is called and awaits listen()
Mount(g) ==
    /\ hook[g].phase = "init"
    /\ hook' = [hook EXCEPT ![g].phase = "pending"]
    /\ UNCHANGED <<shouldPreventClose, handler>>
    /\ NotClose

\* listen() resolves: the subscription is active and unlistenFn is assigned
ListenResolved(g) ==
    /\ hook[g].phase = "pending"
    /\ hook' = [hook EXCEPT ![g].phase = "registered",
                            ![g].unlistenFn = TRUE,
                            ![g].subscribed = TRUE]
    /\ UNCHANGED <<shouldPreventClose, handler>>
    /\ NotClose

\* listen() rejects: the catch logs it
ListenRejected(g) ==
    /\ hook[g].phase = "pending"
    /\ hook' = [hook EXCEPT ![g].phase = "failed"]
    /\ UNCHANGED <<shouldPreventClose, handler>>
    /\ NotClose

\* the cleanup: if (unlistenFn) unlistenFn()
Cleanup(h) ==
    [h EXCEPT !.cleaned = TRUE,
              !.subscribed = IF h.unlistenFn THEN FALSE ELSE h.subscribed]

\* the component unmounts
Unmount(g) ==
    /\ hook[g].phase # "init"
    /\ ~hook[g].cleaned
    /\ hook' = [hook EXCEPT ![g] = Cleanup(hook[g])]
    /\ UNCHANGED <<shouldPreventClose, handler>>
    /\ NotClose

\* a close-requested event is delivered to an active subscription: the callback
\* runs to its first await, isSystemTrayEnabled()
CloseRequested(h, g) ==
    /\ handler[h].pc = "free"
    /\ \A k \in Events : k < h => handler[k].pc # "free"
    /\ hook[g].subscribed
    /\ \E pd \in BOOLEAN :
        handler' = [handler EXCEPT ![h] =
            [NewHandler EXCEPT !.pc = "is_system_tray_enabled",
                               !.orphan = hook[g].cleaned, !.hasPD = pd]]
    /\ UNCHANGED <<shouldPreventClose, hook>>
    /\ NotClose

BoolText(b) == IF b THEN "true" ELSE "false"

\* the value the catch block writes to shouldPreventClose
CatchFlag == TRUE

\* the catch block up to its await: shouldPreventClose = true; window.hide()
Catch(h, failed) ==
    /\ shouldPreventClose' = CatchFlag
    /\ handler' = [handler EXCEPT
          ![h].pc = "fallback_hide",
          ![h].log = handler[h].log \o <<Step(failed, "fail"), Step("setFlag", BoolText(CatchFlag))>>]

\* the steps of the enabled branch before its first await
Suppress(h) ==
    (IF handler[h].hasPD THEN <<Step("preventDefault", "ok")>> ELSE <<>>)
    \o <<Step("setFlag", "true")>>

\* isSystemTrayEnabled() settles
QueryDone(h) ==
    /\ handler[h].pc = "is_system_tray_enabled"
    /\ \E r \in Responses("is_system_tray_enabled") :
        LET q == isSystemTrayEnabled(r) IN
        IF q.kind = "rejected" THEN Catch(h, "is_system_tray_enabled")
        ELSE IF q.val
        THEN /\ shouldPreventClose' = TRUE
             /\ handler' = [handler EXCEPT
                   ![h].pc = "hide",
                   ![h].prevented = handler[h].hasPD,
                   ![h].log = <<Step("is_system_tray_enabled", "true")>> \o Suppress(h)]
        ELSE /\ shouldPreventClose' = FALSE
             /\ handler' = [handler EXCEPT
                   ![h].pc = "emit:window-normal-close",
                   ![h].log = <<Step("is_system_tray_enabled", "false"),
                                Step("setFlag", "false")>>]
    /\ UNCHANGED hook
    /\ NotClose

NextCall_EmitFirst(pc) ==
    CASE pc = "hide" -> "emit:window-minimized-to-tray"
      [] pc = "emit:window-minimized-to-tray" -> "minimize_to_tray"
      [] OTHER -> "done"

\* the next call after an awaited call of the try block resolved
NextCall(pc) ==
    CASE pc = "hide" -> "minimize_to_tray"
      [] pc = "minimize_to_tray" -> "emit:window-minimized-to-tray"
      [] OTHER -> "done"

\* an awaited call of the try block settles
Settled(h, call, ok) ==
    /\ IF ok
       THEN /\ handler' = [handler EXCEPT
                  ![h].pc = NextCall(call),
                  ![h].log = Append(handler[h].log, Step(call, "ok")),
                  ![h].result = IF NextCall(call) = "done" THEN "resolved" ELSE "pending"]
            /\ UNCHANGED shouldPreventClose
       ELSE Catch(h, call)
    /\ UNCHANGED hook
    /\ NotClose

HideDone(h) ==
    /\ handler[h].pc = "hide"
    /\ \E ok \in WindowCall : Settled(h, "hide", ok)

MinimizeDone(h) ==
    /\ handler[h].pc = "minimize_to_tray"
    /\ \E r \in Responses("minimize_to_tray") :
          Settled(h, "minimize_to_tray", minimizeToTray(r).kind = "resolved")

EmitMinimizedDone(h) ==
    /\ handler[h].pc = "emit:window-minimized-to-tray"
    /\ \E ok \in WindowCall : Settled(h, "emit:window-minimized-to-tray", ok)

EmitNormalDone(h) ==
    /\ handler[h].pc = "emit:window-normal-close"
    /\ \E ok \in WindowCall : Settled(h, "emit:window-normal-close", ok)

AfterFallbackHide_Unguarded(ok) == IF ok THEN "resolved" ELSE "rejected"

\* how the callback settles once the catch block's window.hide() settled
AfterFallbackHide(ok) == "resolved"

FallbackHideDone(h) ==
    /\ handler[h].pc = "fallback_hide"
    /\ \E ok \in WindowCall :
        handler' = [handler EXCEPT
            ![h].pc = "done",
            ![h].log = Append(handler[h].log,
                              Step("fallback_hide", IF ok THEN "ok" ELSE "fail")),
            ![h].result = AfterFallbackHide(ok)]
    /\ UNCHANGED <<shouldPreventClose, hook>>
    /\ NotClose

CloseNext ==
    \/ \E g \in Instances : Mount(g)
    \/ \E g \in Instances : ListenResolved(g)
    \/ \E g \in Instances : ListenRejected(g)
    \/ \E g \in Instances : Unmount(g)
    \/ \E h \in Events, g \in Instances : CloseRequested(h, g)
    \/ \E h \in Events : QueryDone(h)
    \/ \E h \in Events : HideDone(h)
    \/ \E h \in Events : MinimizeDone(h)
    \/ \E h \in Events : EmitMinimizedDone(h)
    \/ \E h \in Events : EmitNormalDone(h)
    \/ \E h \in Events : FallbackHideDone(h)

----------------------------------------------------------------------------
InitCrypt   == CryptInit /\ MaskIdle /\ SvcIdle /\ CloseIdle
InitMask    == MaskInit /\ CryptIdle /\ SvcIdle /\ CloseIdle
InitService == SvcInit /\ CryptIdle /\ MaskIdle /\ CloseIdle
InitClose   == CloseInit /\ CryptIdle /\ MaskIdle

SpecCrypt   == InitCrypt /\ [][CryptNext]_vars
SpecMask    == InitMask /\ [][MaskNext]_vars
SpecService == InitService /\ [][SvcNext]_vars
SpecClose   == InitClose /\ [][CloseNext]_vars

\* C1: for every password of length >= 1 and every text, decrypt(encrypt(t, p), p)
\* succeeds and returns exactly t
C1_RoundTrip ==
    cpc = "done" => (cplain.ok /\ cplain.val = cdata)

\* C8: when the last '@' is neither first nor last and the local part has exactly
\* two characters the result is first char, '*', domain; with a local part of one
\* character the input comes back unchanged
C8_MaskShortLocal ==
    (mpc = "done" /\ mvia = "maskUsername") =>
        LET at == lastIndexOf(memail, "@") IN
        (at > 0 /\ at < Len(memail) - 1) =>
            /\ (at = 2 => mresult = <<memail[1], "*">> \o SubSeq(memail, 3, Len(memail)))
            /\ (at = 1 => mresult = memail)

----------------------------------------------------------------------------
\* helpers of the statements below
StepOps(log) == [i \in DOMAIN log |-> log[i].op]
Cmds(log)    == [i \in DOMAIN log |-> log[i].cmd]
NoFailure(log) == \A i \in DOMAIN log : log[i].res # "fail"
EmitMinimized == "emit:window-minimized-to-tray"
EmitNormal    == "emit:window-normal-close"

\* C2: a handler never issues the 'window-minimized-to-tray' emit before hide and
\* then minimize_to_tray have completed; when every call succeeded, a tray-enabled
\* run is exactly: query, suppress (preventDefault when the event has it, flag
\* true), hide, minimize_to_tray, emit 'window-minimized-to-tray'; a tray-disabled
\* run is exactly: query, flag false, emit 'window-normal-close' (no hide, no
\* minimize_to_tray)
C2_CloseHandlerOrder ==
    \A h \in Events :
        LET H == handler[h]  L == H.log  ops == StepOps(L) IN
        /\ (H.pc = EmitMinimized \/ \E i \in DOMAIN L : ops[i] = EmitMinimized) =>
              \E j, k \in DOMAIN L :
                  /\ j < k
                  /\ L[j] = Step("hide", "ok")
                  /\ L[k] = Step("minimize_to_tray", "ok")
                  /\ \A i \in DOMAIN L : ops[i] = EmitMinimized => k < i
        /\ (H.pc = "done" /\ NoFailure(L) /\ L[1].res = "true") =>
              /\ ops = <<"is_system_tray_enabled">>
                       \o (IF H.hasPD THEN <<"preventDefault">> ELSE <<>>)
                       \o <<"setFlag", "hide", "minimize_to_tray", EmitMinimized>>
              /\ H.prevented = H.hasPD
              /\ \A i \in DOMAIN L : ops[i] = "setFlag" => L[i].res = "true"
        /\ (H.pc = "done" /\ NoFailure(L) /\ L[1].res = "false") =>
              /\ ops = <<"is_system_tray_enabled", "setFlag", EmitNormal>>
              /\ L[2].res = "false"
              /\ ~H.prevented

\* a tray-enabled run in which every call succeeded on an event with preventDefault
C2_Witness ==
    \E h \in Events :
        /\ handler[h].pc = "done" /\ NoFailure(handler[h].log)
        /\ handler[h].log[1].res = "true" /\ handler[h].hasPD
        /\ Len(handler[h].log) = 6

\* C3: once listen() has settled and the component has unmounted, no
\* close-requested subscription of the hook is active, and no close event is
\* delivered to the callback of an unmounted component
C3_UnsubscribedAfterTeardown ==
    /\ \A g \in Instances :
          (hook[g].phase \in {"registered", "failed"} /\ hook[g].cleaned)
              => ~hook[g].subscribed
    /\ \A h \in Events : ~handler[h].orphan

\* C4: when a call of the try block fails (the query, hide, minimize_to_tray or
\* either emit), the handler next sets the flag to true and attempts hide, does
\* nothing after that, and its promise resolves whether or not that hide fails
C4_FailSafeHide ==
    \A h \in Events :
        LET H == handler[h]  L == H.log
            fails == {i \in DOMAIN L : L[i].res = "fail" /\ L[i].op # "fallback_hide"} IN
        /\ H.result # "rejected"
        /\ (H.pc = "done" /\ fails # {}) =>
              LET i == CHOOSE x \in fails : \A y \in fails : x <= y IN
              /\ Len(L) = i + 2
              /\ L[i + 1] = Step("setFlag", "true")
              /\ L[i + 2].op = "fallback_hide"
              /\ H.result = "resolved"
        /\ (H.pc = "fallback_hide") =>
              /\ L[Len(L)] = Step("setFlag", "true")
              /\ L[Len(L) - 1].res = "fail"

\* the tray-disabled emit failed and the fallback hide failed as well
C4_Witness ==
    \E h \in Events :
        /\ handler[h].pc = "done"
        /\ Len(handler[h].log) = 5
        /\ handler[h].log[3] = Step(EmitNormal, "fail")
        /\ handler[h].log[5] = Step("fallback_hide", "fail")
        /\ handler[h].result = "resolved"

WithSaveOps == {"enableSystemTrayWithSave", "disableSystemTrayWithSave"}

\* C5: when the toggle command succeeded and save_system_tray_state failed, no
\* opposite tray command was issued, the backend tray is in the toggled state and
\* the returned status carries the toggle's own `enabled`
C5_SaveFailureKeepsToggle ==
    (spc = "idle" /\ sop \in WithSaveOps /\ Len(slog) = 2
        /\ slog[1].ok /\ ~slog[2].ok) =>
        /\ Cmds(slog) = <<IF sop = "enableSystemTrayWithSave"
                          THEN "enable_system_tray" ELSE "disable_system_tray",
                          "save_system_tray_state">>
        /\ trayEnabled = (sop = "enableSystemTrayWithSave")
        /\ sout.kind = "resolved"
        /\ sout.val.enabled = sstatus.enabled
        /\ sout.val.enabled = (sop = "enableSystemTrayWithSave")

\* C6: getSystemTrayState always resolves: to the backend's boolean when
\* get_system_tray_state succeeded, to true when it rejected
C6_GetStateDefaultsTrue ==
    (spc = "idle" /\ sop = "getSystemTrayState") =>
        /\ sout.kind = "resolved"
        /\ Cmds(slog) = <<"get_system_tray_state">>
        /\ (slog[1].ok => sout.val = slog[1].val)
        /\ (~slog[1].ok => sout.val = TRUE)

\* the backend call rejected while the persisted flag was false
C6_Witness ==
    /\ spc = "idle" /\ sop = "getSystemTrayState"
    /\ ~slog[1].ok /\ ~persisted /\ sout = Resolved(TRUE)

\* C7 as stated: no user-facing operation lets a rejection escape
C7_NoRejectionEscapes ==
    (spc = "idle" /\ sop # "none") => sout.kind = "resolved"

CatchingOps ==
    {"ensureAntigravityPath", "enableSystemTray", "disableSystemTray",
     "toggleSystemTray", "getSystemTrayState",
     "enableSystemTrayWithSave", "disableSystemTrayWithSave"}
PropagatingOps ==
    {"backupAndRestartAntigravity", "getBackupList", "minimizeToTray",
     "restoreFromTray", "isSystemTrayEnabled", "saveSystemTrayState"}

\* C7 amended: ensureAntigravityPath, enable/disableSystemTray, toggleSystemTray,
\* getSystemTrayState and enable/disableSystemTrayWithSave always resolve;
\* backupAndRestartAntigravity, getBackupList, minimizeToTray, restoreFromTray,
\* isSystemTrayEnabled and saveSystemTrayState reject exactly when their
\* backend call failed (getBackupList also when the list is null)
C7_CatchAtBoundary ==
    (spc = "idle" /\ sop # "none") =>
        /\ sop \in CatchingOps \cup PropagatingOps
        /\ sop \in CatchingOps => sout.kind = "resolved"
        /\ sop \in PropagatingOps =>
              /\ Len(slog) = 1
              /\ sout.kind = "rejected" <=>
                    (~slog[1].ok \/ (sop = "getBackupList" /\ slog[1].val = NullValue))

\* an operation of the catching group whose backend call failed, settled
C7_Witness ==
    /\ spc = "idle" /\ sop = "getSystemTrayState"
    /\ Len(slog) = 1 /\ ~slog[1].ok /\ slog[1].err = "E2"
    /\ sout.kind = "resolved"

\* C9: in enable/disableSystemTrayWithSave, save_system_tray_state is invoked
\* only after the toggle command succeeded
C9_SaveOnlyAfterToggle ==
    sop \in WithSaveOps =>
        /\ spc = "save_system_tray_state" => (Len(slog) = 1 /\ slog[1].ok)
        /\ \A i \in DOMAIN slog :
              slog[i].cmd = "save_system_tray_state" => (i = 2 /\ slog[1].ok)

EnsureOrder ==
    <<"is_antigravity_running", "resolve_antigravity_path", "dialog_open",
      "save_antigravity_path">>

SingleFile(v) == Truthy(v) /\ v # ArrayValue

\* whether the answered call e ends ensureAntigravityPath
Decides(e) ==
    \/ ~e.ok
    \/ e.cmd = "is_antigravity_running" /\ ~e.val
    \/ e.cmd = "resolve_antigravity_path" /\ Truthy(e.val)
    \/ e.cmd = "dialog_open" /\ ~SingleFile(e.val)
    \/ e.cmd = "save_antigravity_path"

ErrorUpdates == {i \in DOMAIN supdates : supdates[i].isError}

\* C10: ensureAntigravityPath always resolves to a boolean; on Windows its calls
\* are a prefix of is_antigravity_running, resolve_antigravity_path, dialog,
\* save_antigravity_path, ending at the first call that decides; true only if the
\* process runs and a path was resolved or a single file was selected and saved;
\* save_antigravity_path only after a single file was selected; exactly one error
\* update before every false; off Windows true with no call and no update
C10_EnsurePath ==
    sop = "ensureAntigravityPath" =>
        LET n == Len(slog) IN
        /\ Cmds(slog) = SubSeq(EnsureOrder, 1, n)
        /\ \A i \in 1..(n - 1) : ~Decides(slog[i])
        /\ (spc # "idle") => (n < 4 /\ spc = EnsureOrder[n + 1] /\ sout = Pending)
        /\ (spc = "save_antigravity_path" \/ n = 4) =>
              (slog[3].ok /\ SingleFile(slog[3].val))
        /\ n = 4 => slog[4].arg = slog[3].val
        /\ (spc = "idle") =>
              /\ sout.kind = "resolved" /\ sout.val \in BOOLEAN
              /\ ~isWindows => (sout.val /\ n = 0 /\ supdates = <<>>)
              /\ isWindows => (n >= 1 /\ Decides(slog[n]))
              /\ (isWindows /\ sout.val) =>
                    /\ slog[1].ok /\ slog[1].val
                    /\ \/ n = 2 /\ slog[2].ok /\ Truthy(slog[2].val)
                       \/ n = 4 /\ slog[4].ok
              /\ ~sout.val => Cardinality(ErrorUpdates) = 1

\* on Windows, no path resolved, a single file selected and saved: true
C10_Witness ==
    /\ sop = "ensureAntigravityPath" /\ spc = "idle" /\ isWindows
    /\ Len(slog) = 4 /\ slog[3].val = SomePath /\ sout = Resolved(TRUE)
    /\ Len(supdates) = 2

====
